---- MODULE Spec2Model ----
(***************************************************************************)
(* Model of the crawl loop of src/scripts/crawler.py: crawl(),             *)
(* process_links(), analyze_links(), check_crawl_status() and              *)
(* create_crawl_record(), together with the collaborators they call (the   *)
(* HTTP fetch, the csv writer, the Supabase tables crawls, pages,          *)
(* page_links and page_images) and the external user who may cancel the    *)
(* crawl by setting the crawls row to "failed".                            *)
(*                                                                         *)
(* A URL string is modelled by its parts [scheme, netloc, path], which is  *)
(* what urlparse() returns for it; an href is modelled by its kind and the *)
(* parts it spells out.                                                    *)
(***************************************************************************)
EXTENDS Integers, Sequences, FiniteSets, TLC

VARIABLES
    supabase,      \* module global `supabase`: TRUE iff the client was created
    job,           \* status column of the crawls row of crawl_id, "none" if no row
    pc,            \* position of crawl(): start, loop, check, fetch, process, finish,
                   \* done, aborted
    domain,        \* crawl() parameter `domain` (normalised at lines 276-278)
    visited,       \* crawl() local `visited`
    to_visit,      \* crawl() local `to_visit`
    url,           \* crawl() local `url`
    page_count,    \* crawl() local `page_count`
    crawl_status,  \* crawl() local `crawl_status` of this iteration ("" before the check)
    status_code,   \* res.status_code of this iteration (-1 before the fetch, 0 if it raised)
    anchors,       \* soup.find_all('a', href=True) of the page being processed
    writes,        \* the sink calls of this iteration, in call order
    csv_rows,      \* the url column of the rows written to the csv file, in order
    enqueued,      \* history: the URLs put into to_visit, in order (the seed first)
    link_graph,    \* history: the (page, internal link) pairs process_links found
    dequeued,      \* history: the URLs popped from to_visit, in order
    fetched,       \* history: the requests.get calls, in order: the URL, the
                   \* status code (0 if the call raised) and whether the
                   \* extraction code (lines 327-377) ran to its end
    oracle_calls,  \* history: the URLs at whose check check_crawl_status was called
    anchors_left,  \* anchors the site may still serve (bounds the site)
    skipped,       \* history: number of times the "already visited" branch ran
    cancelled,     \* history: TRUE iff the loop was left by the break at line 311
    final_write    \* history: outcome of the status update at line 456

vars == <<supabase, job, pc, domain, visited, to_visit, url, page_count,
          crawl_status, status_code, anchors,
          writes, csv_rows, enqueued, link_graph,
          dequeued, fetched, oracle_calls, anchors_left, skipped,
          cancelled, final_write>>

(***************************************************************************)
(* Bounds of the model.                                                    *)
(***************************************************************************)
\* anchors served by the whole site during one run
MaxAnchors == 3

(***************************************************************************)
(* URLs and hrefs.                                                         *)
(***************************************************************************)
MkUrl(s, n, p) == [scheme |-> s, netloc |-> n, path |-> p]

NoUrl == MkUrl("", "", "")

MkHref(k, s, n, p) == [kind |-> k, scheme |-> s, netloc |-> n, path |-> p]

\* The hrefs an anchor of the site may carry:
\*   "/a", "/b", "/c"        root-relative paths
\*   "https://other.com/"    an absolute URL on another host
\*   "#"                     a bare fragment
\*   "mailto:x"              a mailto link ("tel:" is treated alike by both
\*                           analyze_links and process_links)
\*   "javascript:void(0)"    a javascript link ("" is treated alike by both)
Hrefs ==
    { MkHref("path", "", "", "/a"),
      MkHref("path", "", "", "/b"),
      MkHref("path", "", "", "/c"),
      MkHref("abs", "https", "other.com", "/"),
      MkHref("fragment", "", "", ""),
      MkHref("mailto", "mailto", "", "x"),
      MkHref("javascript", "javascript", "", "void(0)") }

\* urllib.parse.urljoin(base, href)
urljoin(base, href) ==
    CASE href.kind = "path"     -> MkUrl(base.scheme, base.netloc, href.path)
      [] href.kind = "fragment" -> base
      [] OTHER                  -> MkUrl(href.scheme, href.netloc, href.path)

\* The command-line forms of <domain>: with and without a scheme.
DomainArgs ==
    { [scheme |-> "", rest |-> "example.com"],
      [scheme |-> "https", rest |-> "example.com"] }

\* crawl(), lines 276-278: prepend https:// when the scheme is missing
NormaliseDomain(arg) ==
    IF arg.scheme \in {"http", "https"}
    THEN MkUrl(arg.scheme, arg.rest, "")
    ELSE MkUrl("https", arg.rest, "")

InSeq(x, s) == \E i \in 1..Len(s) : s[i] = x

RECURSIVE SeqsUpTo(_, _)
SeqsUpTo(S, n) ==
    IF n = 0 THEN { <<>> }
    ELSE LET shorter == SeqsUpTo(S, n - 1)
         IN  shorter \cup { Append(s, x) : s \in { t \in shorter : Len(t) = n - 1 }, x \in S }

(***************************************************************************)
(* analyze_links(soup, base_url), lines 162-198.  `anchors` is the result  *)
(* of soup.find_all('a', href=True) as the sequence of hrefs.              *)
(***************************************************************************)
\* line 173: the anchors analyze_links passes over
analyze_skips(href) == href.kind \in {"empty", "javascript"}

\* lines 182-189: same netloc as the page itself
analyze_is_internal(base_url, href) ==
    urljoin(base_url, href).netloc = base_url.netloc

\* (counting distinct link targets instead of anchors)
analyze_links_distinct(links, base_url) ==
    LET counted  == { urljoin(base_url, links[i]) :
                          i \in { j \in 1..Len(links) : ~analyze_skips(links[j]) } }
        internal == { u \in counted : u.netloc = base_url.netloc }
    IN  [internal_links |-> Cardinality(internal),
         external_links |-> Cardinality(counted \ internal)]

analyze_links(links, base_url) ==
    LET counted  == { i \in 1..Len(links) : ~analyze_skips(links[i]) }
        internal == { i \in counted : analyze_is_internal(base_url, links[i]) }
    IN  [internal_links |-> Cardinality(internal),
         external_links |-> Cardinality(counted \ internal)]

(***************************************************************************)
(* The sink calls of one loop iteration, in call order: one event per csv  *)
(* row, per pages insert, per page_links insert (or, without Supabase, per *)
(* link counted at line 260) and per page_images batch insert.             *)
(***************************************************************************)
MkEvent(op, u, to, res, il, el) ==
    [op |-> op, url |-> u, to |-> to, res |-> res,
     internal_links |-> il, external_links |-> el]

\* (from_url and to_url swapped in the row of lines 241-247)
LinkEvent_swapped(from, to, res) == MkEvent("page_links", to, from, res, 0, 0)

LinkEvent(from, to, res) == MkEvent("page_links", from, to, res, 0, 0)

CsvEvent(u, la) ==
    MkEvent("csv", u, NoUrl, "ok", la.internal_links, la.external_links)

PageEvent(u, la, res) ==
    MkEvent("pages", u, NoUrl, res, la.internal_links, la.external_links)

ImageEvent(u, res) == MkEvent("page_images", u, NoUrl, res, 0, 0)

\* outcomes of supabase.table("page_links").insert(...).execute(), lines 241-258:
\* "raise" is either except branch (duplicate key or other), which both only log
LinkResults == IF supabase THEN {"ok", "raise"} ELSE {"nosink"}

\* outcomes of supabase.table("pages").insert(...).execute(), lines 405-441
PageResults == {"ok", "error", "nodata", "raise"}

\* outcomes of supabase.table("page_images").insert(...).execute(), lines 431-436
ImageResults == {"ok", "error", "raise"}

(***************************************************************************)
(* process_links(soup, current_url, domain, crawl_id, visited, to_visit),  *)
(* lines 200-269.                                                          *)
(***************************************************************************)
\* line 212: the anchors process_links passes over
process_skips(href) ==
    href.kind \in {"empty", "javascript", "mailto", "tel", "fragment"}

\* (the comparison at line 224 lost)
is_internal_always(dom, resolved_href) == TRUE

\* lines 220-224
is_internal(dom, resolved_href) == dom.netloc = resolved_href.netloc

\* (line 231 without its second test)
not_visited(resolved_href, vis, queue) == resolved_href \notin vis

\* line 231
not_visited_or_queued(resolved_href, vis, queue) ==
    resolved_href \notin vis /\ ~InSeq(resolved_href, queue)

\* (line 231 lost: every internal link is appended)
enqueue_always(resolved_href, vis, queue) == Append(queue, resolved_href)

\* lines 230-232
enqueue(resolved_href, vis, queue) ==
    IF not_visited_or_queued(resolved_href, vis, queue)
    THEN Append(queue, resolved_href)
    ELSE queue

\* one iteration of the for loop, lines 207-266; st.k counts the inserts made
process_link(st, href, results, current_url, dom, vis) ==
    IF process_skips(href) THEN st
    ELSE
        LET resolved_href == urljoin(current_url, href)
            internal      == is_internal(dom, resolved_href)
            res           == results[st.k + 1]
        IN  [to_visit |-> IF internal
                          THEN enqueue(resolved_href, vis, st.to_visit)
                          ELSE st.to_visit,
             found    |-> IF internal
                          THEN Append(st.found, resolved_href)
                          ELSE st.found,
             writes   |-> Append(st.writes, LinkEvent(current_url, resolved_href, res)),
             k        |-> st.k + 1]

\* (the try of lines 240-258 lost: an insert that raises ends the for loop)
RECURSIVE process_links_until_error(_, _, _, _, _, _, _)
process_links_until_error(i, st, links, results, current_url, dom, vis) ==
    IF i > Len(links) \/ (st.k > 0 /\ results[st.k] = "raise") THEN st
    ELSE process_links_until_error(i + 1,
                                   process_link(st, links[i], results, current_url, dom, vis),
                                   links, results, current_url, dom, vis)

RECURSIVE process_links_from(_, _, _, _, _, _, _)
process_links_from(i, st, links, results, current_url, dom, vis) ==
    IF i > Len(links) THEN st
    ELSE process_links_from(i + 1,
                            process_link(st, links[i], results, current_url, dom, vis),
                            links, results, current_url, dom, vis)

\* the result holds to_visit after the call, the returned internal_links_found
\* and the sink calls made
process_links(links, results, current_url, dom, vis, queue) ==
    process_links_from(1, [to_visit |-> queue, found |-> <<>>, writes |-> <<>>, k |-> 0],
                       links, results, current_url, dom, vis)

\* number of page_links inserts process_links makes for a page
NavigableCount(links) ==
    Cardinality({ i \in 1..Len(links) : ~process_skips(links[i]) })

(***************************************************************************)
(* check_crawl_status(crawl_id), lines 39-51.  `row` is the status of the  *)
(* crawls row ("none" when the select returns no row), `raised` tells      *)
(* whether the select raised.                                              *)
(***************************************************************************)
\* (line 51 returning "failed": a query that raises stops the crawl)
check_crawl_status_strict(client, row, raised) ==
    IF ~client THEN "running"
    ELSE IF raised THEN "failed"
    ELSE IF row = "none" THEN "running"
    ELSE row

check_crawl_status(client, row, raised) ==
    IF ~client THEN "running"
    ELSE IF raised THEN "running"
    ELSE IF row = "none" THEN "running"
    ELSE row

\* (a check whose break was lost)
stopped_by_user_never(status) == FALSE

\* line 309
stopped_by_user(status) == status = "failed"

\* (line 321 as a test for "some response")
fetch_answered(code) == code >= 200

\* (line 321 as a test for any 2xx status)
fetch_succeeded_2xx(code) == code >= 200 /\ code < 300

\* line 321
fetch_succeeded(code) == code = 200

\* (the add at line 304 lost)
mark_visited_lost(vis, u) == vis

\* (line 304 as an assignment: visited = {url})
mark_visited_reset(vis, u) == {u}

\* line 304
mark_visited(vis, u) == vis \cup {u}

\* (pop() instead of pop(0): the last element)
pop_back(queue) == <<queue[Len(queue)], SubSeq(queue, 1, Len(queue) - 1)>>

\* line 300: to_visit.pop(0) as <<the popped url, the rest>>
pop_front(queue) == <<Head(queue), Tail(queue)>>

\* line 456: the update of the crawls row (it matches no row when there is none)
update_finished(row) == IF row = "none" THEN "none" ELSE "finished"

(***************************************************************************)
(* Initial states: the process has loaded, crawl() has not been called.    *)
(* The crawls row may exist already (created by the application that       *)
(* starts the crawler), and the user may have stopped the crawl already.   *)
(***************************************************************************)
Init ==
    /\ supabase \in BOOLEAN
    /\ job \in (IF supabase THEN {"none", "running", "failed"} ELSE {"none"})
    /\ pc = "start"
    /\ domain \in DomainArgs
    /\ visited = {}
    /\ to_visit = <<>>
    /\ url = NoUrl
    /\ page_count = 0
    /\ crawl_status = ""
    /\ status_code = -1
    /\ anchors = <<>>
    /\ writes = <<>>
    /\ csv_rows = <<>>
    /\ enqueued = <<>>
    /\ link_graph = {}
    /\ dequeued = <<>>
    /\ fetched = <<>>
    /\ oracle_calls = <<>>
    /\ anchors_left = MaxAnchors
    /\ skipped = 0
    /\ cancelled = FALSE
    /\ final_write = "none"

(***************************************************************************)
(* crawl(), lines 271-296: normalise the domain, seed the queue, create    *)
(* the crawls row if it is missing (create_crawl_record, lines 53-83),     *)
(* open the csv file and write its header.  The open may fail, which ends  *)
(* the run.                                                                *)
(***************************************************************************)
Start ==
    /\ pc = "start"
    /\ LET d == NormaliseDomain(domain)
       IN  /\ domain' = d
           /\ to_visit' = <<d>>
           /\ enqueued' = <<d>>
    /\ \E created \in BOOLEAN :
           job' = IF supabase /\ job = "none" /\ created THEN "running" ELSE job
    /\ \E opened \in BOOLEAN :
           pc' = IF opened THEN "loop" ELSE "aborted"
    /\ UNCHANGED <<supabase, visited, url, page_count, crawl_status, status_code,
                   anchors, writes, csv_rows, link_graph, dequeued, fetched,
                   oracle_calls, anchors_left, skipped, cancelled, final_write>>

(***************************************************************************)
(* Lines 299-305: the while test, the pop, the "already visited" branch.   *)
(* A new iteration starts: the observations of the last one are cleared.   *)
(***************************************************************************)
Dequeue ==
    /\ pc = "loop"
    /\ to_visit # <<>>
    /\ LET popped == pop_front(to_visit)
       IN  /\ url' = popped[1]
           /\ to_visit' = popped[2]
           /\ dequeued' = Append(dequeued, popped[1])
           /\ IF popped[1] \in visited
              THEN /\ skipped' = skipped + 1
                   /\ pc' = "loop"
                   /\ UNCHANGED <<visited, page_count>>
              ELSE /\ visited' = mark_visited(visited, popped[1])
                   /\ page_count' = page_count + 1
                   /\ pc' = "check"
                   /\ UNCHANGED skipped
    /\ crawl_status' = ""
    /\ status_code' = -1
    /\ anchors' = <<>>
    /\ writes' = <<>>
    /\ UNCHANGED <<supabase, job, domain, csv_rows, enqueued, link_graph, fetched,
                   oracle_calls, anchors_left, cancelled, final_write>>

\* line 299: the queue is empty, the loop ends
LoopEnd ==
    /\ pc = "loop"
    /\ to_visit = <<>>
    /\ pc' = "finish"
    /\ crawl_status' = ""
    /\ status_code' = -1
    /\ anchors' = <<>>
    /\ writes' = <<>>
    /\ UNCHANGED <<supabase, job, domain, visited, to_visit, url, page_count,
                   csv_rows, enqueued, link_graph, dequeued, fetched, oracle_calls,
                   anchors_left, skipped, cancelled, final_write>>

(***************************************************************************)
(* Lines 307-311: the cancellation check.                                  *)
(***************************************************************************)
CheckStatus ==
    /\ pc = "check"
    /\ \E raised \in (IF supabase THEN BOOLEAN ELSE {FALSE}) :
           crawl_status' = check_crawl_status(supabase, job, raised)
    /\ oracle_calls' = Append(oracle_calls, url)
    /\ IF stopped_by_user(crawl_status')
       THEN /\ cancelled' = TRUE
            /\ pc' = "finish"
       ELSE /\ pc' = "fetch"
            /\ UNCHANGED cancelled
    /\ UNCHANGED <<supabase, job, domain, visited, to_visit, url, page_count,
                   status_code, anchors, writes, csv_rows, enqueued, link_graph,
                   dequeued, fetched, anchors_left, skipped, final_write>>

Fetch(u, code, extracted) ==
    [url |-> u, status_code |-> code, extracted |-> extracted]

(***************************************************************************)
(* Lines 316-323 and 445-446: requests.get raises (timeout, transport      *)
(* error: status_code 0 here) or answers with a status the code rejects.   *)
(***************************************************************************)
StatusCodes == {200, 204, 404}

FetchFail ==
    /\ pc = "fetch"
    /\ \E code \in (StatusCodes \cup {0}) :
           /\ code = 0 \/ ~fetch_succeeded(code)
           /\ status_code' = code
           /\ fetched' = Append(fetched, Fetch(url, code, FALSE))
    /\ pc' = "loop"
    /\ UNCHANGED <<supabase, job, domain, visited, to_visit, url, page_count,
                   crawl_status, anchors, writes, csv_rows, enqueued, link_graph,
                   dequeued, oracle_calls, anchors_left, skipped, cancelled,
                   final_write>>

(***************************************************************************)
(* Lines 316-325: requests.get answers with status 200; the page carries   *)
(* the anchors `links`.                                                    *)
(***************************************************************************)
FetchOk ==
    /\ pc = "fetch"
    /\ \E code \in StatusCodes, links \in SeqsUpTo(Hrefs, anchors_left) :
           /\ fetch_succeeded(code)
           /\ status_code' = code
           /\ anchors' = links
           /\ anchors_left' = anchors_left - Len(links)
           /\ fetched' = Append(fetched, Fetch(url, code, FALSE))
    /\ pc' = "process"
    /\ UNCHANGED <<supabase, job, domain, visited, to_visit, url, page_count,
                   crawl_status, writes, csv_rows, enqueued, link_graph,
                   dequeued, oracle_calls, skipped, cancelled, final_write>>

(***************************************************************************)
(* Lines 327-446 for an accepted response: extraction, analyze_links,      *)
(* process_links, the csv row, the pages insert, the page_images insert.   *)
(* The page-scoped try block may be left by an exception of the extraction *)
(* code: before process_links (e.g. a TypeError in                         *)
(* extract_schema_types, line 348), "late" after it and before the csv row *)
(* (e.g. the join at line 371), or not at all.                             *)
(***************************************************************************)
\* lines 381-443: the sink calls that may follow the csv row of page u: the
\* pages insert and, if it returned a row and the page has images, the
\* page_images insert
\* (the tests of lines 407 and 413 lost: images are inserted whatever the
\* pages insert returned)
persist_page_images_always(u, la) ==
    { <<PageEvent(u, la, page_result), ImageEvent(u, "ok")>> :
          page_result \in PageResults \ {"raise"} }
    \cup { <<PageEvent(u, la, "raise")>> }

persist_page(u, la) ==
    { <<PageEvent(u, la, page_result)>> : page_result \in PageResults }
    \cup { <<PageEvent(u, la, "ok"), ImageEvent(u, image_result)>> :
               image_result \in ImageResults }

\* the part of `after` that was appended to `before`
appended(before, after) == SubSeq(after, Len(before) + 1, Len(after))

\* (process_links called after the pages and page_images inserts)
page_writes_links_last(link_calls, row, calls) == <<row>> \o calls \o link_calls

\* lines 362, 379 and 381-443: the order of the sink calls of one page
page_writes(link_calls, row, calls) == link_calls \o <<row>> \o calls

ProcessPage ==
    /\ pc = "process"
    /\ \/ \* an exception before process_links
          /\ writes' = <<>>
          /\ UNCHANGED <<to_visit, csv_rows, enqueued, link_graph, fetched>>
       \/ \E results \in [1..NavigableCount(anchors) -> LinkResults] :
             LET la == analyze_links(anchors, url)
                 pl == process_links(anchors, results, url, domain,
                                     visited, to_visit)
             IN  /\ to_visit' = pl.to_visit
                 /\ enqueued' = enqueued \o appended(to_visit, pl.to_visit)
                 /\ link_graph' = link_graph \cup
                        { [from_url |-> url, to_url |-> pl.found[i]] :
                              i \in 1..Len(pl.found) }
                 /\ \/ \* an exception after process_links, before the csv row
                       /\ writes' = pl.writes
                       /\ UNCHANGED <<csv_rows, fetched>>
                    \/ /\ fetched' = [fetched EXCEPT ![Len(fetched)] =
                                          Fetch(url, status_code, TRUE)]
                       /\ csv_rows' = Append(csv_rows, url)
                       /\ \E calls \in (IF supabase THEN persist_page(url, la)
                                                   ELSE { <<>> }) :
                              writes' = page_writes(pl.writes, CsvEvent(url, la), calls)
    /\ pc' = "loop"
    /\ anchors' = <<>>
    /\ UNCHANGED <<supabase, job, domain, visited, url, page_count, crawl_status,
                   status_code, dequeued, oracle_calls, anchors_left,
                   skipped, cancelled, final_write>>

(***************************************************************************)
(* Lines 448-460: the summary and the status update.                       *)
(***************************************************************************)
Finish ==
    /\ pc = "finish"
    /\ IF supabase
       THEN \E raised \in BOOLEAN :
                IF raised
                THEN /\ final_write' = "raised"
                     /\ UNCHANGED job
                ELSE /\ final_write' = "finished"
                     /\ job' = update_finished(job)
       ELSE UNCHANGED <<job, final_write>>
    /\ pc' = "done"
    /\ UNCHANGED <<supabase, domain, visited, to_visit, url, page_count,
                   crawl_status, status_code, anchors, writes, csv_rows, enqueued, link_graph,
                   dequeued, fetched, oracle_calls, anchors_left,
                   skipped, cancelled>>

(***************************************************************************)
(* The user stops the crawl: another process sets the crawls row to        *)
(* "failed" while crawl() runs.                                            *)
(***************************************************************************)
ExternalCancel ==
    /\ pc \in {"loop", "check", "fetch", "process", "finish"}
    /\ job \notin {"none", "failed"}
    /\ job' = "failed"
    /\ UNCHANGED <<supabase, pc, domain, visited, to_visit, url, page_count,
                   crawl_status, status_code, anchors, writes, csv_rows, enqueued, link_graph,
                   dequeued, fetched, oracle_calls, anchors_left,
                   skipped, cancelled, final_write>>

Next ==
    \/ Start
    \/ Dequeue
    \/ LoopEnd
    \/ CheckStatus
    \/ FetchFail
    \/ FetchOk
    \/ ProcessPage
    \/ Finish
    \/ ExternalCancel

Spec == Init /\ [][Next]_vars

\* crawl() runs to its end when every fetch, oracle call and sink call returns
Crawler ==
    \/ Start
    \/ Dequeue
    \/ LoopEnd
    \/ CheckStatus
    \/ FetchFail
    \/ FetchOk
    \/ ProcessPage
    \/ Finish

FairSpec == Spec /\ WF_vars(Crawler)

(***************************************************************************)
(* Helpers of the properties.                                              *)
(***************************************************************************)
Range(s) == { s[i] : i \in 1..Len(s) }

NoDup(s) == \A i, j \in 1..Len(s) : i # j => s[i] # s[j]

Front(s) == SubSeq(s, 1, Len(s) - 1)

FetchedUrls == [i \in 1..Len(fetched) |-> fetched[i].url]

\* the sink calls of this iteration on table/file `op`
Calls(op) == { i \in 1..Len(writes) : writes[i].op = op }

Terminated == pc \in {"done", "aborted"}

(***************************************************************************)
(* C1.  When the loop ends by the break of the cancellation check, crawl() *)
(* leaves the status of the crawls row alone: at the end of crawl() the    *)
(* row still holds "failed" and no update was sent.                        *)
(***************************************************************************)
C1_CancelledStatusKept ==
    (pc = "done" /\ cancelled) => (job = "failed" /\ final_write = "none")

(***************************************************************************)
(* C2.  check_crawl_status is called once per dequeued URL, after the URL  *)
(* was added to visited and before its fetch; when it returns "failed" the *)
(* loop ends at once, with no fetch, no sink call and no queue append for  *)
(* that URL or for a URL still queued.                                     *)
(***************************************************************************)
\* the HTTP statuses the specification calls a successful fetch
Is2xx(code) == code >= 200 /\ code < 300

\* the fetches whose page was accepted (line 321) and extracted to the end
ProcessedFetches ==
    { i \in 1..Len(fetched) : fetched[i].status_code = 200 /\ fetched[i].extracted }

C2_OracleOrder ==
    /\ oracle_calls = (IF pc = "check" THEN Front(dequeued) ELSE dequeued)
    /\ NoDup(oracle_calls)
    /\ Range(oracle_calls) \subseteq visited
    /\ pc = "check" => url \in visited
    /\ Len(fetched) <= Len(oracle_calls)
    /\ \A i \in 1..Len(fetched) : fetched[i].url = oracle_calls[i]
    /\ crawl_status = "failed" => cancelled /\ pc \in {"finish", "done"}

C2_StoppedAtOnce ==
    cancelled =>
        /\ crawl_status = "failed"
        /\ pc \in {"finish", "done"}
        /\ FetchedUrls = Front(oracle_calls)
        /\ url \notin Range(FetchedUrls)
        /\ url \notin Range(csv_rows)
        /\ writes = <<>>
        /\ \A e \in link_graph : e.from_url # url
        /\ \A i \in 1..Len(to_visit) : to_visit[i] \notin Range(FetchedUrls)

\* C2 as claimed: in addition, a cancellation at the k-th dequeued URL after
\* k-1 fetches that all succeeded (returned a 2xx status) leaves k-1 rows
C2_AsClaimed ==
    /\ C2_OracleOrder
    /\ C2_StoppedAtOnce
    /\ (cancelled /\ \A i \in 1..Len(fetched) : Is2xx(fetched[i].status_code))
           => Len(csv_rows) = Len(dequeued) - 1

\* C2 as amended: the order of the oracle call, the immediate stop, and at a
\* cancellation at the k-th dequeued URL exactly k-1 URLs fetched and at most
\* k-1 rows: one per earlier URL that answered 200 and was processed up to
\* its csv row
C2_CancellationCheck ==
    /\ [](/\ C2_OracleOrder
          /\ C2_StoppedAtOnce
          /\ cancelled => /\ Len(fetched) = Len(dequeued) - 1
                          /\ Len(csv_rows) <= Len(dequeued) - 1
                          /\ Len(csv_rows) = Cardinality(ProcessedFetches))
    /\ [][cancelled => UNCHANGED <<visited, to_visit, url, writes, csv_rows,
                                    enqueued, link_graph, dequeued, fetched,
                                    oracle_calls>>]_vars

\* the third dequeued URL is cancelled after two pages were processed, with a
\* URL left in the queue
C2_Witness ==
    /\ cancelled
    /\ Len(dequeued) = 3
    /\ Len(csv_rows) = 2
    /\ Cardinality(ProcessedFetches) = 2
    /\ to_visit # <<>>

(***************************************************************************)
(* C3.  No URL is given to requests.get twice and no URL has two rows in   *)
(* the csv file, whatever the links are.                                   *)
(***************************************************************************)
C3_FetchedOnce == NoDup(FetchedUrls) /\ NoDup(csv_rows)

\* a finished run over a site with a self-link or a two-page cycle and a page
\* that failed to fetch
C3_Witness ==
    /\ pc = "done"
    /\ \E e \in link_graph :
           \/ e.from_url = e.to_url
           \/ [from_url |-> e.to_url, to_url |-> e.from_url] \in link_graph
    /\ \E i \in 1..Len(fetched) : fetched[i].status_code \in {0, 404}
    /\ Len(csv_rows) >= 2

(***************************************************************************)
(* C4.  to_visit never holds a URL twice nor a URL of visited, so the      *)
(* "already visited" branch at lines 301-303 never runs.                   *)
(***************************************************************************)
C4_FrontierFresh ==
    /\ NoDup(to_visit)
    /\ \A i \in 1..Len(to_visit) : to_visit[i] \notin visited
    /\ skipped = 0

\* a page with a link to a URL that an earlier page had put into to_visit and
\* that is still there was processed
C4_Witness ==
    /\ pc = "loop"
    /\ Len(csv_rows) >= 2
    /\ \E i \in Calls("page_links"), e \in link_graph :
           /\ writes[i].to \in Range(to_visit)
           /\ e.to_url = writes[i].to
           /\ e.from_url # url

(***************************************************************************)
(* C5.  A fetch that fails (non-2xx status, timeout, transport error)      *)
(* leaves the URL in visited, makes no sink call and no queue append, and  *)
(* the loop goes on with the next queued URL; the URL is not fetched again.*)
(***************************************************************************)
FetchFailed == pc = "fetch" /\ pc' # "fetch" /\ (status_code' = 0 \/ ~Is2xx(status_code'))

C5_FailedFetchSkipped ==
    [][/\ FetchFailed =>
              /\ url \in visited'
              /\ writes' = <<>>
              /\ UNCHANGED <<visited, to_visit, csv_rows, enqueued, link_graph>>
              /\ pc' = "loop"
       /\ Len(fetched') > Len(fetched) => url \notin Range(FetchedUrls)
       /\ visited \subseteq visited']_vars

\* after a failed fetch the next queued URL was dequeued and fetched
C5_Witness ==
    /\ Len(fetched) >= 2
    /\ fetched[Len(fetched) - 1].status_code \in {0, 404}
    /\ fetched[Len(fetched)].status_code = 200
    /\ fetched[Len(fetched) - 1].url \in visited

(***************************************************************************)
(* C6.  The order of the sink calls of one page.                           *)
(***************************************************************************)
\* C6 as claimed: PageRecord first, then the LinkEdges, then the ImageRecords:
\* no page_links row of a page is stored before the page's record is written
C6_PageBeforeLinks ==
    \A i \in Calls("page_links") :
        writes[i].res = "ok" => \E j \in Calls("csv") \cup Calls("pages") : j < i

\* the position of a sink in the order the code calls them for one page
CallRank(op) ==
    CASE op = "page_links"  -> 1
      [] op = "csv"         -> 2
      [] op = "pages"       -> 3
      [] op = "page_images" -> 4

\* C6 as amended: the page_links inserts come first, then the csv row, then
\* the pages insert, then the page_images insert; all are calls for `url`
C6_LinksBeforePage ==
    /\ \A i, j \in 1..Len(writes) : i < j => CallRank(writes[i].op) <= CallRank(writes[j].op)
    /\ \A i \in 1..Len(writes) : writes[i].url = url
    /\ Cardinality(Calls("csv")) <= 1
    /\ Cardinality(Calls("pages")) <= 1
    /\ Cardinality(Calls("page_images")) <= 1
    /\ Calls("pages") # {} => Calls("csv") # {}
    /\ Calls("page_images") # {} => \E i \in Calls("pages") : writes[i].res = "ok"

\* a page with a stored link, a stored page record and a stored image batch
C6_Witness ==
    /\ pc = "loop"
    /\ \E i \in Calls("page_links") : writes[i].res = "ok"
    /\ \E i \in Calls("pages") : writes[i].res = "ok"
    /\ \E i \in Calls("page_images") : writes[i].res = "ok"

(***************************************************************************)
(* C7.  URLs are dequeued in the order they were put into to_visit, the    *)
(* seed first, so a URL at breadth-first depth d of the link graph is      *)
(* dequeued before every URL at depth d + 1.                               *)
(***************************************************************************)
\* the URLs one internal link away from the set S
Successors(S) == { e.to_url : e \in { x \in link_graph : x.from_url \in S } }

\* the URLs at most d internal links away from the seed
RECURSIVE Within(_)
Within(d) == IF d = 0 THEN { enqueued[1] }
             ELSE LET near == Within(d - 1) IN near \cup Successors(near)

\* the breadth-first depth of a URL the seed reaches
Depth(u) ==
    CHOOSE d \in 0..Cardinality(link_graph) :
        /\ u \in Within(d)
        /\ d > 0 => u \notin Within(d - 1)

C7_BreadthFirstOrder ==
    /\ Len(dequeued) <= Len(enqueued)
    /\ dequeued = SubSeq(enqueued, 1, Len(dequeued))
    /\ pc # "start" => enqueued[1] = domain
    /\ \A i, j \in 1..Len(dequeued) :
           i < j => Depth(dequeued[i]) <= Depth(dequeued[j])
    /\ \A i \in 1..Len(dequeued), j \in 1..Len(to_visit) :
           Depth(dequeued[i]) <= Depth(to_visit[j])

\* the seed links to two pages and the first of them to a third, and all
\* four were dequeued: the third after the second page of depth 1
C7_Witness ==
    /\ Len(dequeued) = 4
    /\ Depth(dequeued[2]) = 1
    /\ Depth(dequeued[3]) = 1
    /\ Depth(dequeued[4]) = 2
    /\ [from_url |-> dequeued[2], to_url |-> dequeued[4]] \in link_graph

(***************************************************************************)
(* C8.  Every URL put into to_visit has the netloc of the target domain,   *)
(* so a URL of another host is never queued or fetched, though a           *)
(* page_links row to it is written.                                        *)
(***************************************************************************)
C8_FrontierInternal ==
    pc # "start" =>
        /\ \A i \in 1..Len(to_visit) : to_visit[i].netloc = domain.netloc
        /\ \A i \in 1..Len(enqueued) : enqueued[i].netloc = domain.netloc
        /\ \A i \in 1..Len(fetched) : fetched[i].url.netloc = domain.netloc

\* a link to another host was stored in page_links, and the run went on to
\* fetch a queued page
C8_Witness ==
    /\ pc = "loop"
    /\ Len(fetched) >= 2
    /\ \E i \in Calls("page_links") :
           /\ writes[i].res = "ok"
           /\ writes[i].to.netloc # domain.netloc

(***************************************************************************)
(* C9.  crawl() terminates, after at most as many dequeues as the site has *)
(* distinct internal URLs, the seed included.                              *)
(***************************************************************************)
\* the seed and the internal URLs the pages of the site link to
InternalUrls ==
    IF pc = "start" THEN {} ELSE { domain } \cup { e.to_url : e \in link_graph }

C9_Terminates ==
    /\ [](Len(dequeued) <= Cardinality(InternalUrls))
    /\ <>Terminated

\* a run that ended by the empty queue after it dequeued every URL of a site
\* of three pages, one of which links to itself
C9_Witness ==
    /\ pc = "done"
    /\ ~cancelled
    /\ Len(dequeued) = 3
    /\ Cardinality(InternalUrls) = 3
    /\ \E e \in link_graph : e.from_url = e.to_url

(***************************************************************************)
(* C10.  On a processed page an internal URL that several anchors carry is *)
(* appended to to_visit at most once, and not at all if it is visited or   *)
(* queued; one page_links row is written per anchor occurrence; and the    *)
(* internal_links and external_links of the page's record count anchor     *)
(* occurrences.  Two anchors to /a and one to another host: one append,    *)
(* three page_links rows, internal_links = 2, external_links = 1.          *)
(***************************************************************************)
IsLinkCall(e) == e.op = "page_links"

\* the anchors of a page that are links to a URL
Navigable(h) == ~process_skips(h)

\* a step that processes a fetched page up to its csv row
PageProcessed ==
    /\ pc = "process"
    /\ csv_rows' = Append(csv_rows, url)

\* the anchors of Scenario A
ScenarioA ==
    <<MkHref("path", "", "", "/a"), MkHref("path", "", "", "/a"),
      MkHref("abs", "https", "other.com", "/")>>

C10_AnchorOccurrences ==
    [][PageProcessed =>
        LET links    == SelectSeq(anchors, Navigable)
            targets  == [i \in 1..Len(links) |-> urljoin(url, links[i])]
            internal == { i \in 1..Len(links) : targets[i].netloc = domain.netloc }
            calls    == SelectSeq(writes', IsLinkCall)
            new      == appended(to_visit, to_visit')
            row      == writes'[CHOOSE i \in 1..Len(writes') : writes'[i].op = "csv"]
        IN  /\ to_visit = SubSeq(to_visit', 1, Len(to_visit))
            /\ NoDup(new)
            /\ Range(new) = { targets[i] : i \in internal }
                                \ (visited \cup Range(to_visit))
            /\ Len(calls) = Len(links)
            /\ \A i \in 1..Len(links) :
                   /\ calls[i].url = url
                   /\ calls[i].to = targets[i]
                   /\ supabase => calls[i].res # "nosink"
            /\ row.internal_links + row.external_links =
                   Cardinality({ i \in 1..Len(anchors) : ~analyze_skips(anchors[i]) })
            /\ row.internal_links >= Cardinality(internal)
            /\ row.external_links >= Len(links) - Cardinality(internal)
            /\ Len(links) = Len(anchors) =>
                   /\ row.internal_links = Cardinality(internal)
                   /\ row.external_links = Len(links) - Cardinality(internal)
            /\ anchors = ScenarioA =>
                   /\ new = IF targets[1] \in visited \cup Range(to_visit)
                            THEN <<>> ELSE <<targets[1]>>
                   /\ Len(calls) = 3
                   /\ row.internal_links = 2
                   /\ row.external_links = 1
    ]_vars

\* the seed page of Scenario A was processed
C10_Witness ==
    /\ pc = "loop"
    /\ supabase
    /\ url = domain
    /\ to_visit = <<urljoin(url, ScenarioA[1])>>
    /\ Cardinality(Calls("page_links")) = 3
    /\ \A i \in 1..3 : writes[i].to = urljoin(url, ScenarioA[i])
    /\ \E i \in Calls("csv") :
           writes[i].internal_links = 2 /\ writes[i].external_links = 1

(***************************************************************************)
(* C11.  An anchor with href "#", "javascript:", "mailto:" or "tel:" is    *)
(* counted neither in internal_links nor in external_links and gets no     *)
(* page_links row, so for every page internal_links + external_links is    *)
(* the number of page_links rows written for it.                           *)
(***************************************************************************)
C11_CountsMatchEdges ==
    supabase =>
        \A i \in Calls("csv") :
            writes[i].internal_links + writes[i].external_links
                = Cardinality(Calls("page_links"))

(***************************************************************************)
(* C12.  The page_images insert of a page is made only after the pages     *)
(* insert of that page returned a row; when the pages insert fails (error  *)
(* result, exception, no row) no page_images insert is made for the page;  *)
(* whatever happened to earlier pages, the images of a page that is being  *)
(* processed can still be written.                                         *)
(***************************************************************************)
\* a step of ProcessPage that makes a page_images insert
ImagesWritten ==
    /\ ProcessPage
    /\ \E i \in 1..Len(writes') : writes'[i].op = "page_images"

C12_ImagesAfterPage ==
    [](/\ \A i \in Calls("page_images") :
              \E j \in Calls("pages") :
                  /\ j < i
                  /\ writes[j].res = "ok"
                  /\ writes[j].url = writes[i].url
       /\ \A j \in Calls("pages") :
              writes[j].res \in {"error", "nodata", "raise"} => Calls("page_images") = {}
       /\ Calls("page_images") # {} => supabase
       /\ (pc = "process" /\ supabase) => ENABLED ImagesWritten)

\* the second page of a run had its record and its images stored
C12_Witness ==
    /\ pc = "loop"
    /\ Len(csv_rows) = 2
    /\ \E i \in Calls("pages") : writes[i].res = "ok"
    /\ \E i \in Calls("page_images") : writes[i].res = "ok"

(***************************************************************************)
(* C13.  Once the csv file is open, no failure while a page is processed   *)
(* (fetch, extraction, page_links insert, pages insert, page_images        *)
(* insert, status query) ends the loop: the loop is left only with an      *)
(* empty queue or by the cancellation, the next queued URL can be          *)
(* dequeued, and a page_links insert that fails does not keep the          *)
(* remaining anchors of the page from being processed and queued.          *)
(***************************************************************************)
\* a sink call of this iteration failed
SinkFailed(e) == e.res \in {"raise", "error", "nodata"}

C13_FailuresDoNotStop ==
    /\ [](pc = "loop" /\ to_visit # <<>> => ENABLED Dequeue)
    /\ [][/\ (pc = "check" /\ pc' # "check") =>
                  IF crawl_status' = "failed" THEN pc' = "finish" ELSE pc' = "fetch"
          /\ (pc = "fetch" /\ pc' # "fetch") => pc' \in {"process", "loop"}
          /\ (pc = "process" /\ pc' # "process") => pc' = "loop"
          /\ (pc \in {"fetch", "process"} /\ pc' = "loop") =>
                  SubSeq(to_visit', 1, Len(to_visit)) = to_visit
          /\ (pc # "finish" /\ pc' = "finish") =>
                  \/ pc = "loop" /\ to_visit = <<>>
                  \/ pc = "check" /\ crawl_status' = "failed"
          /\ (pc = "process" /\ pc' = "loop" /\ writes' # <<>>) =>
                  LET links   == SelectSeq(anchors, Navigable)
                      calls   == SelectSeq(writes', IsLinkCall)
                  IN  /\ Len(calls) = Len(links)
                      /\ \A i \in 1..Len(links) :
                             LET target == urljoin(url, links[i])
                             IN  /\ calls[i].to = target
                                 /\ target.netloc = domain.netloc =>
                                        target \in visited \cup Range(to_visit')
       ]_vars

\* the seed page was left by an exception after its links were queued; on the
\* next page a page_links insert failed, and a later anchor of that page was
\* stored and queued
C13_Witness ==
    /\ pc = "loop"
    /\ Len(fetched) = 2
    /\ fetched[1].status_code = 200
    /\ ~fetched[1].extracted
    /\ \E i, j \in Calls("page_links") :
           /\ i < j
           /\ writes[i].res = "raise"
           /\ writes[j].res = "ok"
           /\ writes[j].to \in Range(to_visit)
           /\ writes[i].to # writes[j].to
    /\ \E i \in 1..Len(writes) : writes[i].op \in {"pages", "page_images"} /\ SinkFailed(writes[i])

(***************************************************************************)
(* C14.  The crawl is cancelled only when check_crawl_status returns       *)
(* "failed"; for every other outcome of the status query ("running",       *)
(* "finished", another value, no row, an exception, no Supabase client)    *)
(* the loop goes on to fetch the dequeued URL.                             *)
(***************************************************************************)
\* values of the status column, "none" for a missing row
Statuses == {"none", "running", "failed", "finished", "paused"}

\* a step that makes the cancellation check
Checked == pc = "check" /\ pc' # "check"

C14_CancelledOnlyOnFailed ==
    /\ [](\A client \in BOOLEAN, row \in Statuses, raised \in BOOLEAN :
              stopped_by_user(check_crawl_status(client, row, raised))
                  <=> (client /\ ~raised /\ row = "failed"))
    /\ [][/\ Checked =>
                  /\ crawl_status' \in {check_crawl_status(supabase, job, raised) :
                                            raised \in BOOLEAN}
                  /\ crawl_status' = "failed" => (supabase /\ job = "failed")
                  /\ IF crawl_status' = "failed"
                     THEN cancelled' /\ pc' = "finish"
                     ELSE ~cancelled' /\ pc' = "fetch" /\ url' = url
                                      /\ to_visit' = to_visit
          /\ (cancelled' /\ ~cancelled) => (Checked /\ crawl_status' = "failed")
          /\ cancelled => cancelled'
       ]_vars

\* the status query raised while the row said "failed": the URL is fetched
C14_Witness ==
    /\ pc = "fetch"
    /\ supabase
    /\ job = "failed"
    /\ crawl_status = "running"
    /\ ~cancelled
    /\ Len(dequeued) = 2

(***************************************************************************)
(* C15.  visited only grows; a URL added to it is, at that step, the URL   *)
(* popped from the front of to_visit (the seed being the first); visited   *)
(* never has more URLs than were ever put into to_visit, the seed          *)
(* included.                                                               *)
(***************************************************************************)
C15_VisitedGrows ==
    /\ [](/\ Cardinality(visited) <= Len(enqueued)
          /\ visited \subseteq Range(enqueued)
          /\ visited = Range(dequeued)
          /\ visited # {} => enqueued[1] \in visited)
    /\ [][/\ visited \subseteq visited'
          /\ visited' # visited =>
                 /\ to_visit # <<>>
                 /\ visited' = visited \cup {Head(to_visit)}
                 /\ url' = Head(to_visit)
                 /\ to_visit' = Tail(to_visit)
                 /\ visited = {} => Head(to_visit) = domain
       ]_vars

\* three URLs were popped and added to visited, a fourth is still queued
C15_Witness ==
    /\ pc = "check"
    /\ Cardinality(visited) = 3
    /\ Len(enqueued) = 4
    /\ Len(to_visit) = 1

(***************************************************************************)
(* C16.  Which fetches count as a success.                                 *)
(***************************************************************************)
\* the fetches whose iteration has ended
CompletedFetches ==
    { i \in 1..Len(fetched) : i < Len(fetched) \/ pc # "process" }

\* number of rows of the csv file for URL u
RowsOf(u) == Cardinality({ i \in 1..Len(csv_rows) : csv_rows[i] = u })

\* C16 as claimed: every fetch that returned a 2xx status, 200 or not, had
\* its page extracted and exactly one row written
C16_Any2xxProcessed ==
    \A i \in CompletedFetches :
        Is2xx(fetched[i].status_code) =>
            fetched[i].extracted /\ RowsOf(fetched[i].url) = 1

\* C16 as amended: a fetch that returns 200 is the only one that is handed
\* to the extraction code; it gets one row, or none when the processing of
\* the page raised before the row was written, and its internal links are
\* offered to to_visit once process_links has run; every other status, 2xx
\* or not, gets no extraction, no row and no link
C16_Only200Processed ==
    /\ [](\A i \in CompletedFetches :
              /\ RowsOf(fetched[i].url) = (IF fetched[i].extracted THEN 1 ELSE 0)
              /\ fetched[i].extracted => fetched[i].status_code = 200
              /\ fetched[i].status_code # 200 =>
                     \A e \in link_graph : e.from_url # fetched[i].url)
    /\ [][/\ (pc = "fetch" /\ pc' = "process") <=> (pc = "fetch" /\ status_code' = 200)
          /\ (pc = "fetch" /\ pc' = "loop") =>
                 /\ status_code' # 200
                 /\ writes' = <<>>
                 /\ UNCHANGED <<to_visit, csv_rows, link_graph>>
          /\ (pc = "process" /\ csv_rows' # csv_rows) =>
                 /\ status_code = 200
                 /\ csv_rows' = Append(csv_rows, url)
                 /\ \A i \in 1..Len(anchors) :
                        LET target == urljoin(url, anchors[i])
                        IN  (Navigable(anchors[i]) /\ target.netloc = domain.netloc)
                                => target \in visited \cup Range(to_visit')
       ]_vars

\* a URL answered 204 and was skipped, another answered 200 and has its row
C16_Witness ==
    /\ pc = "loop"
    /\ \E i \in CompletedFetches :
           fetched[i].status_code = 204 /\ RowsOf(fetched[i].url) = 0
    /\ \E i \in CompletedFetches :
           /\ fetched[i].status_code = 200
           /\ fetched[i].extracted
           /\ fetched[i].url = url
    /\ to_visit # <<>>

(***************************************************************************)
(* C17.  At the end of every run, a cancelled one included, every URL of   *)
(* visited has had a fetch attempted, so len(visited), which line 450      *)
(* prints as "Total pages processed", is the number of fetch attempts.     *)
(***************************************************************************)
C17_VisitedAllFetched ==
    pc = "done" =>
        /\ visited = Range(FetchedUrls)
        /\ Cardinality(visited) = Len(fetched)

(***************************************************************************)
(* C18.  When a run ends with an empty queue and without cancellation,     *)
(* visited is the set of URLs that the seed reaches over the internal,     *)
(* navigable anchors of the pages that were fetched with success, and      *)
(* each of them was fetched once.                                          *)
(***************************************************************************)
\* the URLs the seed reaches over the links process_links found
Reachable == Within(Cardinality(link_graph))

\* the end state: visited is what the seed reaches over link_graph
C18_EndState ==
    (pc = "done" /\ ~cancelled) =>
        /\ visited = Reachable
        /\ Range(FetchedUrls) = visited
        /\ NoDup(FetchedUrls)

\* ... and link_graph holds every internal, navigable anchor of every page
\* that was fetched with success
C18_VisitedIsReachable ==
    /\ [] C18_EndState
    /\ [][(pc = "process" /\ pc' = "loop") =>
             \A i \in 1..Len(anchors) :
                 LET target == urljoin(url, anchors[i])
                 IN  (Navigable(anchors[i]) /\ target.netloc = domain.netloc)
                         => [from_url |-> url, to_url |-> target] \in link_graph'
       ]_vars

(***************************************************************************)
(* C19.  The page_links rows and the pages rows of the crawl.  A URL is    *)
(* processed in one iteration only (C3), so the rows with from_url = url   *)
(* and the pages row of url are those written in the iteration of url.     *)
(***************************************************************************)
\* C19 as claimed: at the end of an iteration every page_links row that was
\* stored has a from_url whose pages row was stored too; a failed pages
\* insert leaves no page_links row behind
C19_EdgesHavePageRecord ==
    pc = "loop" =>
        ((\E i \in Calls("page_links") : writes[i].res = "ok")
             => (\E j \in Calls("pages") : writes[j].res = "ok"))

\* C19 as amended: every page_links row that is stored has as from_url the
\* URL of this iteration, which was dequeued, fetched with status 200 and
\* handed to process_links; it is stored before the pages insert of that URL
\* is made and stays whatever that insert returns
C19_EdgesOfProcessedPage ==
    \A i \in Calls("page_links") :
        /\ writes[i].url = url
        /\ url \in visited
        /\ url = dequeued[Len(dequeued)]
        /\ fetched # <<>>
        /\ fetched[Len(fetched)].url = url
        /\ fetched[Len(fetched)].status_code = 200
        /\ \A j \in Calls("pages") : i < j
        /\ writes[i].to.netloc = domain.netloc
               => [from_url |-> url, to_url |-> writes[i].to] \in link_graph

\* the page_links row of a page was stored and its pages insert failed
C19_Witness ==
    /\ pc = "loop"
    /\ \E i \in Calls("page_links") : writes[i].res = "ok"
    /\ \E j \in Calls("pages") : writes[j].res \in {"error", "raise"}
    /\ Len(dequeued) = 2

(***************************************************************************)
(* C20.  Whenever the user sets the crawls row to "failed" (also after the *)
(* last cancellation check, while the last page is processed) crawl()      *)
(* never overwrites it with "finished": the update of line 456 is only     *)
(* made while the row says "running".  Stated for the runs that the        *)
(* cancellation check did not stop; C1 is about those it stopped.          *)
(***************************************************************************)
C20_FailedNeverOverwritten ==
    [][~cancelled =>
          /\ job = "failed" => job' = "failed"
          /\ (final_write' = "finished" /\ final_write # "finished") => job = "running"
      ]_vars

====
